---- MODULE Spec2Model ----
(***************************************************************************)
(* A model of node.py: one ChordNode process per address, the join         *)
(* sequence run by __init__, the request handlers run by one thread per    *)
(* accepted connection, and the local key-value store.                     *)
(***************************************************************************)
EXTENDS Integers, Sequences, FiniteSets, TLC

\* ------------------------------------------------------------------ bounds
\* Number of addresses (ip, port) a node process can be started on.
NumNodes == 3
\* Largest target id an external client asks find_successor for.
MaxTarget == 5
\* Longest chain of nested find_successor handlers (the code has no hop cap).
MaxHops == 3
\* Number of handler threads that serve store requests at the same time.
MaxWorkers == 2
\* Number of times a process is interrupted (Ctrl+C) in one run.
MaxKills == 2

Nodes == 1..NumNodes
\* The external client's connection slot (not a node).
Client == NumNodes + 1
Requesters == Nodes \cup {Client}
Targets == 0..MaxTarget
Workers == 1..MaxWorkers
\* The key strings and values clients send to the store.
Keys == {"k1", "k2"}
Values == {"v1", "v2"}
\* request.get("value") of a request without a value.
NoValue == "None"

\* --------------------------------------------------------------- identity
\* SHA-1 of "ip:port" (generate_id) and of the key string (insert, query,
\* delete), each as a fixed table of distinct values: the digest is
\* deterministic, and no two of the inputs used here collide.
NodeIdTable == <<4, 1, 3, 6, 2, 0>>
KeyHashTable == [key \in Keys |-> IF key = "k1" THEN 7 ELSE 2]

IpOf(n) == "127.0.0.1"
PortOf(n) == 5000 + n

generate_id(ip, port) == NodeIdTable[port - 5000]

Id(n) == generate_id(IpOf(n), PortOf(n))

HashKey(key) == KeyHashTable[key]

\* The descriptor {"node_id", "ip", "port"} a node builds of itself.
Desc(n) == [node_id |-> Id(n), ip |-> IpOf(n), port |-> PortOf(n)]

\* The process, if any address matches, that a connect((ip, port)) reaches.
NodeAt(ip, port) == CHOOSE n \in Nodes : IpOf(n) = ip /\ PortOf(n) = port

\* ----------------------------------------------------------------- values
\* self.successor before any assignment (the attribute does not exist).
NoSuccessor == [unset |-> TRUE]
\* self.predecessor = None
None == [none |-> TRUE]
\* A local variable of join() that has not been assigned.
NoResponse == [status |-> "none"]
\* A connection closed by the peer without any payload.
NoPayload == [closed |-> TRUE]
\* The bootstrap address given on the command line (None when absent).
Address(n) == [ip |-> IpOf(n), port |-> PortOf(n)]

SuccessorResponse(desc) == [status |-> "success", successor |-> desc]
PredecessorUpdated == [status |-> "success", message |-> "Predecessor updated"]
ErrorResponse(msg) == [status |-> "error", message |-> msg]

FindSuccessorRequest(node_id) == [command |-> "find_successor", node_id |-> node_id]

\* Mutant of UpdatePredecessorRequest: the request names the port of the peer
\* it is sent through instead of the sender's own port.
UpdatePredecessorRequestPeerPort(n) ==
    [command |-> "update_predecessor", node_id |-> Id(n), ip |-> IpOf(n),
     port |-> PortOf(IF n = 1 THEN NumNodes ELSE n - 1)]

UpdatePredecessorRequest(n) ==
    [command |-> "update_predecessor", node_id |-> Id(n), ip |-> IpOf(n), port |-> PortOf(n)]

\* No outstanding request of a requester.
Idle == [command |-> "idle"]

VARIABLES
    pc,                 \* position of each process: off, requesting, announcing, updating, serving
    bootstrap,          \* the bootstrap address a process was started with, or NoBootstrap
    successor,          \* self.successor
    predecessor,        \* self.predecessor
    successor_response, \* join(): successor_response
    update_response,    \* join(): update_response
    chain,              \* per requester: its outstanding request and the handlers serving it
    data_store,         \* self.data_store, hashed key -> value
    worker,             \* handler threads serving store requests
    last_write,         \* per node and key: the insert or delete that took effect last
    kills               \* how many processes have been interrupted so far

vars == <<pc, bootstrap, successor, predecessor, successor_response, update_response,
          chain, data_store, worker, last_write, kills>>

ringVars == <<pc, bootstrap, successor, predecessor, successor_response, update_response, chain>>
storeVars == <<data_store, worker, last_write, kills>>

EmptyStore == [h \in {} |-> 0]
IdleWorker == [command |-> "idle"]
\* No insert or delete of a key has taken effect yet.
NoWrite == [command |-> "none"]
\* Another handler worked on the key while this one did.
Overlapped == [command |-> "overlapped"]

\* Mutant of Listening: the server thread is started before join() is called.
ListeningFromStart(n) == pc[n] # "off"

\* The server thread is started only after __init__ has run join() or seeded
\* the self-successor, so a process accepts connections only from then on.
Listening(n) == pc[n] = "serving"

\* ------------------------------------------------------------- transport
\* send_request: the decoded reply, or the error dict its except clause builds
\* when the peer closed the connection without a payload.
ReceiveResponse(raw) ==
    IF raw = NoPayload THEN ErrorResponse("no payload") ELSE raw

\* send_request when connect() is refused.
ConnectRefused == ErrorResponse("connection refused")

\* A request just sent over a fresh connection to node `to`.
NewChain(request, to) ==
    [command |-> request.command, request |-> request, at |-> to, path |-> <<to>>,
     phase |-> "req", raw |-> NoPayload, fwd |-> 0]

Front(s) == SubSeq(s, 1, Len(s) - 1)
Last(s) == s[Len(s)]

\* The handler at the end of the path answers `raw` to its caller.
Answer(c, raw) == [c EXCEPT !.path = Front(c.path), !.phase = "resp", !.raw = raw]

\* ---------------------------------------------------------------- routing
\* Mutant of InInterval: the successor's own id is left out of the interval.
InIntervalOpen(self_id, node_id, succ_id) == self_id < node_id /\ node_id < succ_id

\* The interval test of find_successor: self.node_id < node_id <= successor id.
InInterval(self_id, node_id, succ_id) == self_id < node_id /\ node_id <= succ_id

\* Mutant of IsOwnSuccessor: the bootstrap test never matches.
IsOwnSuccessorNever(self_id, succ) == FALSE

\* The bootstrap test of find_successor.
IsOwnSuccessor(self_id, succ) == succ.node_id = self_id

\* Mutant of find_successor: on an interval match the node answers with its own
\* descriptor instead of its successor's.
find_successorReturnsSelf(self, node_id) ==
    LET succ == successor[self] IN
    IF succ = NoSuccessor THEN [kind |-> "raise"]
    ELSE IF IsOwnSuccessor(Id(self), succ)
    THEN [kind |-> "return", response |-> SuccessorResponse(succ)]
    ELSE IF InInterval(Id(self), node_id, succ.node_id)
    THEN [kind |-> "return", response |-> SuccessorResponse(Desc(self))]
    ELSE [kind |-> "forward", ip |-> succ.ip, port |-> succ.port,
          request |-> FindSuccessorRequest(node_id)]

\* find_successor at node self: raise (no successor attribute), return a
\* response, or forward the request to the successor's address.
find_successor(self, node_id) ==
    LET succ == successor[self] IN
    IF succ = NoSuccessor THEN [kind |-> "raise"]
    ELSE IF IsOwnSuccessor(Id(self), succ)
    THEN [kind |-> "return", response |-> SuccessorResponse(succ)]
    ELSE IF InInterval(Id(self), node_id, succ.node_id)
    THEN [kind |-> "return", response |-> SuccessorResponse(succ)]
    ELSE [kind |-> "forward", ip |-> succ.ip, port |-> succ.port,
          request |-> FindSuccessorRequest(node_id)]

\* Mutant of PredecessorOf: the stored descriptor keeps a fixed port instead
\* of the port the request carries.
PredecessorOfWrongPort(request) ==
    [node_id |-> request.node_id, ip |-> request.ip, port |-> PortOf(1)]

\* The descriptor update_predecessor stores.
PredecessorOf(request) ==
    [node_id |-> request.node_id, ip |-> request.ip, port |-> request.port]

\* Mutant of JoinSuccessor: the bootstrap peer itself is taken as successor
\* (what the unused join_network does), not the descriptor it answered.
JoinSuccessorIsBootstrap(response, boot) ==
    [node_id |-> generate_id(boot.ip, boot.port), ip |-> boot.ip, port |-> boot.port]

\* The successor join() records from a success response.
JoinSuccessor(response, boot) == response.successor

\* ------------------------------------------------------------- operations
Init ==
    /\ pc = [n \in Nodes |-> "off"]
    /\ bootstrap = [n \in Nodes |-> None]
    /\ successor = [n \in Nodes |-> NoSuccessor]
    /\ predecessor = [n \in Nodes |-> None]
    /\ successor_response = [n \in Nodes |-> NoResponse]
    /\ update_response = [n \in Nodes |-> NoResponse]
    /\ chain = [r \in Requesters |-> Idle]
    /\ data_store = [n \in Nodes |-> EmptyStore]
    /\ worker = [w \in Workers |-> IdleWorker]
    /\ last_write = [n \in Nodes |-> [k \in Keys |-> NoWrite]]
    /\ kills = 0

\* python node.py <ip> <port>: __init__ without a bootstrap address.
StartBootstrap(n) ==
    /\ pc[n] = "off"
    /\ chain[n] = Idle
    /\ pc' = [pc EXCEPT ![n] = "serving"]
    /\ bootstrap' = [bootstrap EXCEPT ![n] = None]
    /\ successor' = [successor EXCEPT ![n] = Desc(n)]
    /\ predecessor' = [predecessor EXCEPT ![n] = None]
    /\ successor_response' = [successor_response EXCEPT ![n] = NoResponse]
    /\ update_response' = [update_response EXCEPT ![n] = NoResponse]
    /\ data_store' = [data_store EXCEPT ![n] = EmptyStore]
    /\ UNCHANGED <<chain, worker, last_write, kills>>

\* python node.py <ip> <port> <bootstrap_ip> <bootstrap_port>: __init__ calls
\* join(), which sends find_successor(own id) to the bootstrap address. A
\* refused connection makes send_request return an error dict, join() prints
\* it and __init__ goes on to start the server.
StartJoin(n, b) ==
    /\ pc[n] = "off"
    /\ chain[n] = Idle
    /\ bootstrap' = [bootstrap EXCEPT ![n] = Address(b)]
    /\ successor' = [successor EXCEPT ![n] = NoSuccessor]
    /\ predecessor' = [predecessor EXCEPT ![n] = None]
    /\ update_response' = [update_response EXCEPT ![n] = NoResponse]
    /\ data_store' = [data_store EXCEPT ![n] = EmptyStore]
    /\ IF Listening(b)
       THEN /\ chain' = [chain EXCEPT ![n] = NewChain(FindSuccessorRequest(Id(n)), b)]
            /\ pc' = [pc EXCEPT ![n] = "requesting"]
            /\ successor_response' = [successor_response EXCEPT ![n] = NoResponse]
       ELSE /\ successor_response' = [successor_response EXCEPT ![n] = ConnectRefused]
            /\ pc' = [pc EXCEPT ![n] = "serving"]
            /\ UNCHANGED chain
    /\ UNCHANGED <<worker, last_write, kills>>

\* Mutant of JoinRecvSuccessor: on a failed reply the node falls back to the
\* bootstrap peer as its successor (what the unused join_network does).
JoinRecvSuccessorFallsBack(n) ==
    /\ pc[n] = "requesting"
    /\ chain[n].command = "find_successor"
    /\ chain[n].phase = "resp"
    /\ chain[n].path = <<>>
    /\ LET response == ReceiveResponse(chain[n].raw) IN
       /\ successor_response' = [successor_response EXCEPT ![n] = response]
       /\ IF response.status = "success"
          THEN /\ successor' = [successor EXCEPT
                                    ![n] = JoinSuccessor(response, bootstrap[n])]
               /\ pc' = [pc EXCEPT ![n] = "announcing"]
          ELSE /\ successor' = [successor EXCEPT
                                    ![n] = JoinSuccessorIsBootstrap(response, bootstrap[n])]
               /\ pc' = [pc EXCEPT ![n] = "serving"]
    /\ chain' = [chain EXCEPT ![n] = Idle]
    /\ UNCHANGED <<bootstrap, predecessor, update_response, data_store, worker, last_write, kills>>

\* join(): the reply to find_successor arrives. On success the successor is
\* recorded; otherwise the error is printed and join() returns.
JoinRecvSuccessor(n) ==
    /\ pc[n] = "requesting"
    /\ chain[n].command = "find_successor"
    /\ chain[n].phase = "resp"
    /\ chain[n].path = <<>>
    /\ LET response == ReceiveResponse(chain[n].raw) IN
       /\ successor_response' = [successor_response EXCEPT ![n] = response]
       /\ IF response.status = "success"
          THEN /\ successor' = [successor EXCEPT
                                    ![n] = JoinSuccessor(response, bootstrap[n])]
               /\ pc' = [pc EXCEPT ![n] = "announcing"]
          ELSE /\ pc' = [pc EXCEPT ![n] = "serving"]
               /\ UNCHANGED successor
    /\ chain' = [chain EXCEPT ![n] = Idle]
    /\ UNCHANGED <<bootstrap, predecessor, update_response, data_store, worker, last_write, kills>>

\* join(): update_predecessor, carrying the node's own descriptor, is sent to
\* the address of the successor just recorded.
JoinSendUpdate(n) ==
    /\ pc[n] = "announcing"
    /\ LET s == NodeAt(successor[n].ip, successor[n].port) IN
       IF Listening(s)
       THEN /\ chain' = [chain EXCEPT ![n] = NewChain(UpdatePredecessorRequest(n), s)]
            /\ pc' = [pc EXCEPT ![n] = "updating"]
            /\ UNCHANGED update_response
       ELSE /\ update_response' = [update_response EXCEPT ![n] = ConnectRefused]
            /\ pc' = [pc EXCEPT ![n] = "serving"]
            /\ UNCHANGED chain
    /\ UNCHANGED <<bootstrap, successor, predecessor, successor_response, data_store, worker, last_write, kills>>

\* join(): the reply to update_predecessor arrives and is printed; __init__
\* then starts the server thread.
JoinRecvUpdate(n) ==
    /\ pc[n] = "updating"
    /\ chain[n].command = "update_predecessor"
    /\ chain[n].phase = "resp"
    /\ chain[n].path = <<>>
    /\ update_response' = [update_response EXCEPT ![n] = ReceiveResponse(chain[n].raw)]
    /\ pc' = [pc EXCEPT ![n] = "serving"]
    /\ chain' = [chain EXCEPT ![n] = Idle]
    /\ UNCHANGED <<bootstrap, successor, predecessor, successor_response, data_store, worker, last_write, kills>>

\* handle_request -> process_request -> find_successor at the node that holds
\* the request: it answers, forwards to its successor (blocking in
\* send_request until that peer answers), or raises, which closes the
\* connection without a payload.
HandleFindSuccessor(r) ==
    /\ chain[r].command = "find_successor"
    /\ chain[r].phase = "req"
    /\ LET c == chain[r]
           h == Last(c.path)
           d == find_successor(h, c.request.node_id)
       IN  CASE d.kind = "raise" ->
                  chain' = [chain EXCEPT ![r] = Answer(c, NoPayload)]
             [] d.kind = "return" ->
                  chain' = [chain EXCEPT ![r] = Answer(c, d.response)]
             [] d.kind = "forward" ->
                  LET s == NodeAt(d.ip, d.port) IN
                  IF Listening(s)
                  THEN /\ Len(c.path) < MaxHops
                       /\ chain' = [chain EXCEPT ![r] =
                              [c EXCEPT !.path = Append(c.path, s),
                                        !.request = d.request,
                                        !.fwd = c.fwd + 1]]
                  ELSE chain' = [chain EXCEPT ![r] =
                              [Answer(c, ConnectRefused) EXCEPT !.fwd = c.fwd + 1]]
    /\ UNCHANGED <<pc, bootstrap, successor, predecessor, successor_response,
                   update_response, data_store, worker, last_write, kills>>

\* Mutant of Relay: a failure of the outbound call is not caught, the handler
\* raises and its own connection is closed without a payload.
RelayRaises(r) ==
    /\ chain[r].command = "find_successor"
    /\ chain[r].phase = "resp"
    /\ chain[r].path # <<>>
    /\ chain' = [chain EXCEPT ![r] = Answer(chain[r], chain[r].raw)]
    /\ UNCHANGED <<pc, bootstrap, successor, predecessor, successor_response,
                   update_response, data_store, worker, last_write, kills>>

\* find_successor, forwarding case: send_request returns the peer's answer and
\* the handler sends it on to its own caller.
Relay(r) ==
    /\ chain[r].command = "find_successor"
    /\ chain[r].phase = "resp"
    /\ chain[r].path # <<>>
    /\ chain' = [chain EXCEPT ![r] = Answer(chain[r], ReceiveResponse(chain[r].raw))]
    /\ UNCHANGED <<pc, bootstrap, successor, predecessor, successor_response,
                   update_response, data_store, worker, last_write, kills>>

\* Mutant of HandleUpdatePredecessor: a predecessor that is set is kept, the
\* later claim is answered success without being applied.
HandleUpdatePredecessorKeepsFirst(r) ==
    /\ chain[r].command = "update_predecessor"
    /\ chain[r].phase = "req"
    /\ LET c == chain[r]
           h == Last(c.path)
       IN  /\ predecessor' = [predecessor EXCEPT ![h] =
                  IF @ = None THEN PredecessorOf(c.request) ELSE @]
           /\ chain' = [chain EXCEPT ![r] =
                  IF r \in Nodes /\ pc[r] = "off" THEN Idle
                  ELSE Answer(c, PredecessorUpdated)]
    /\ UNCHANGED <<pc, bootstrap, successor, successor_response, update_response,
                   data_store, worker, last_write, kills>>

\* Mutant of HandleUpdatePredecessor: a node that is its own successor takes
\* its first predecessor as successor too, closing the ring.
HandleUpdatePredecessorClosesRing(r) ==
    /\ chain[r].command = "update_predecessor"
    /\ chain[r].phase = "req"
    /\ LET c == chain[r]
           h == Last(c.path)
       IN  /\ predecessor' = [predecessor EXCEPT ![h] = PredecessorOf(c.request)]
           /\ successor' = [successor EXCEPT ![h] =
                  IF @ # NoSuccessor /\ IsOwnSuccessor(Id(h), @)
                  THEN PredecessorOf(c.request) ELSE @]
           /\ chain' = [chain EXCEPT ![r] =
                  IF r \in Nodes /\ pc[r] = "off" THEN Idle
                  ELSE Answer(c, PredecessorUpdated)]
    /\ UNCHANGED <<pc, bootstrap, successor_response, update_response,
                   data_store, worker, last_write, kills>>

\* handle_request -> process_request -> update_predecessor at the node that
\* holds the request. The reply to a requester that has exited is lost.
HandleUpdatePredecessor(r) ==
    /\ chain[r].command = "update_predecessor"
    /\ chain[r].phase = "req"
    /\ LET c == chain[r]
           h == Last(c.path)
       IN  /\ predecessor' = [predecessor EXCEPT ![h] = PredecessorOf(c.request)]
           /\ chain' = [chain EXCEPT ![r] =
                  IF r \in Nodes /\ pc[r] = "off" THEN Idle
                  ELSE Answer(c, PredecessorUpdated)]
    /\ UNCHANGED <<pc, bootstrap, successor, successor_response, update_response,
                   data_store, worker, last_write, kills>>

\* An external client asks node n for the successor of target id t.
ClientLookup(n, t) ==
    /\ chain[Client] = Idle
    /\ Listening(n)
    /\ chain' = [chain EXCEPT ![Client] = NewChain(FindSuccessorRequest(t), n)]
    /\ UNCHANGED <<pc, bootstrap, successor, predecessor, successor_response,
                   update_response, data_store, worker, last_write, kills>>

\* The client reads the answer (or the closed connection) and disconnects.
ClientRecv ==
    /\ chain[Client] # Idle
    /\ chain[Client].phase = "resp"
    /\ chain[Client].path = <<>>
    /\ chain' = [chain EXCEPT ![Client] = Idle]
    /\ UNCHANGED <<pc, bootstrap, successor, predecessor, successor_response,
                   update_response, data_store, worker, last_write, kills>>

Next ==
    \/ \E n \in Nodes : StartBootstrap(n)
    \/ \E n \in Nodes, b \in Nodes : StartJoin(n, b)
    \/ \E n \in Nodes : JoinRecvSuccessor(n)
    \/ \E n \in Nodes : JoinSendUpdate(n)
    \/ \E n \in Nodes : JoinRecvUpdate(n)
    \/ \E r \in Requesters : HandleFindSuccessor(r)
    \/ \E r \in Requesters : Relay(r)
    \/ \E r \in Requesters : HandleUpdatePredecessor(r)
    \/ \E n \in Nodes, t \in Targets : ClientLookup(n, t)
    \/ ClientRecv

\* Nodes are started and join through one another; no process exits.
Spec == Init /\ [][Next]_vars

\* ------------------------------------------------------- join: properties
\* The node a descriptor addresses.
NodeOf(desc) == NodeAt(desc.ip, desc.port)

\* join() of node n has run to its end with both requests answered success.
JoinCompleted(n) ==
    /\ pc[n] = "serving"
    /\ successor_response[n].status = "success"
    /\ update_response[n].status = "success"

\* Node n's update_predecessor request is handled in this step.
UpdateHandled(n) ==
    /\ chain[n].command = "update_predecessor"
    /\ chain[n].phase = "req"
    /\ chain'[n] # chain[n]
    /\ pc' = pc

\* Node n's update_predecessor has been handled and its reply is on the way.
UpdateAnswered(n) ==
    /\ chain[n].command = "update_predecessor"
    /\ chain[n].phase = "resp"

\* C1, as stated: whenever a node's join completes with both requests
\* answered success, the predecessor recorded at the node's successor is the
\* node's own descriptor, whatever other joins interleave with it.
C1_JoinSetsPredecessor ==
    [][\A n \in Nodes :
          (pc[n] = "updating" /\ JoinCompleted(n)')
              => predecessor'[NodeOf(successor'[n])] = Desc(n)]_vars

\* C1, amended: handling a node's update_predecessor request records the
\* node's own descriptor as predecessor at its successor, and from then until
\* the node's join completes that predecessor changes only when the successor
\* handles another node's update_predecessor request, whose descriptor it
\* then holds (last writer wins).
C1_PredecessorUntilOverwritten ==
    [][\A n \in Nodes :
          /\ UpdateHandled(n) => predecessor'[Last(chain[n].path)] = Desc(n)
          /\ (UpdateAnswered(n) /\ predecessor'[chain[n].at] # predecessor[chain[n].at])
                => \E m \in Nodes \ {n} :
                      /\ UpdateHandled(m)
                      /\ chain[m].at = chain[n].at
                      /\ predecessor'[chain[n].at] = Desc(m)]_vars

\* C1 witness: a join has completed and the successor holds the joiner's
\* descriptor as predecessor, while another node has joined the same peer.
C1_Witness ==
    \E n \in Nodes, m \in Nodes :
        /\ n # m
        /\ JoinCompleted(n) /\ JoinCompleted(m)
        /\ successor[n] = successor[m]
        /\ predecessor[NodeOf(successor[n])] = Desc(n)

\* C2: once the bootstrap peer has answered find_successor with success, the
\* joining node's successor is the descriptor of that response, and it is
\* already so whenever the node's update_predecessor request is out, which
\* goes to that descriptor's address.
C2_SuccessorFromResponse ==
    \A n \in Nodes :
        /\ (pc[n] # "off" /\ successor_response[n].status = "success")
              => successor[n] = successor_response[n].successor
        /\ (pc[n] # "off" /\ chain[n].command = "update_predecessor")
              => /\ successor_response[n].status = "success"
                 /\ successor[n] = successor_response[n].successor
                 /\ chain[n].at = NodeOf(successor[n])

\* C2 witness: a node joined through a peer that is not its own successor,
\* and holds the descriptor that peer answered.
C2_Witness ==
    \E n \in Nodes :
        /\ JoinCompleted(n)
        /\ successor[n] = successor_response[n].successor
        /\ Address(NodeOf(successor[n])) # bootstrap[n]

\* C3, as stated: a node that has finished construction (bootstrap start, or
\* join attempt, succeeded or failed) and serves requests holds a successor
\* descriptor.
C3_SuccessorPresent ==
    \A n \in Nodes : Listening(n) => successor[n] # NoSuccessor

\* Another node has joined with node n as the result of its join.
JoinedTo(n) ==
    \E m \in Nodes \ {n} : JoinCompleted(m) /\ successor[m] = Desc(n)

\* C4, as stated: a serving node's successor is the node itself exactly when
\* no other node has joined with that node as the result of its join.
C4_SelfSuccessorIffAlone ==
    \A n \in Nodes :
        (Listening(n) /\ successor[n] # NoSuccessor)
            => ((successor[n].node_id = Id(n)) <=> ~JoinedTo(n))

\* ---------------------------------------------------- routing: properties
\* The handler at the end of requester r's find_successor chain runs in this
\* step, at node h.
LookupHandled(r, h) ==
    /\ chain[r].command = "find_successor"
    /\ chain[r].phase = "req"
    /\ Last(chain[r].path) = h
    /\ chain'[r] # chain[r]
    /\ pc' = pc

\* The handler of this step answered `response` itself, with no outbound request.
AnsweredLocally(r, response) ==
    /\ chain'[r].phase = "resp"
    /\ chain'[r].raw = response
    /\ chain'[r].fwd = chain[r].fwd

\* C5: a node started without a bootstrap address has its own descriptor as
\* successor, and every find_successor request handled there, whatever the
\* target id, is answered success with that descriptor and without any
\* outbound request.
C5_SingleNodeRing ==
    /\ [](\A n \in Nodes :
            (Listening(n) /\ bootstrap[n] = None) => successor[n] = Desc(n))
    /\ [][\A r \in Requesters, n \in Nodes :
            (LookupHandled(r, n) /\ bootstrap[n] = None)
                => AnsweredLocally(r, SuccessorResponse(Desc(n)))]_vars

\* C5 witness: the client's lookup of a target above the node's id was
\* answered by a bootstrap node with its own descriptor, with no forward.
C5_Witness ==
    /\ chain[Client].command = "find_successor"
    /\ chain[Client].phase = "resp"
    /\ chain[Client].fwd = 0
    /\ bootstrap[chain[Client].at] = None
    /\ chain[Client].request.node_id > Id(chain[Client].at)
    /\ chain[Client].raw = SuccessorResponse(Desc(chain[Client].at))

\* C7: at a node whose successor is another node, every find_successor request
\* for a target t with self id < t <= successor id is answered success with
\* the node's current successor descriptor and without any outbound request.
C7_RoutingInterval ==
    [][\A r \in Requesters, n \in Nodes :
          ( /\ LookupHandled(r, n)
            /\ successor[n] # NoSuccessor
            /\ successor[n].node_id # Id(n)
            /\ Id(n) < chain[r].request.node_id
            /\ chain[r].request.node_id <= successor[n].node_id )
              => AnsweredLocally(r, SuccessorResponse(successor[n]))]_vars

\* C7 witness: the client asked a joined node for the id of that node's
\* successor (the inclusive end of the interval) and got the successor back
\* with no forward.
C7_Witness ==
    /\ chain[Client].command = "find_successor"
    /\ chain[Client].phase = "resp"
    /\ chain[Client].fwd = 0
    /\ successor[chain[Client].at] # NoSuccessor
    /\ successor[chain[Client].at].node_id # Id(chain[Client].at)
    /\ chain[Client].request.node_id = successor[chain[Client].at].node_id
    /\ chain[Client].raw = SuccessorResponse(successor[chain[Client].at])

\* The position of node n in a path, 0 when it holds no handler of the chain.
IndexIn(path, n) ==
    IF \E i \in 1..Len(path) : path[i] = n
    THEN CHOOSE i \in 1..Len(path) :
            path[i] = n /\ \A j \in 1..(i - 1) : path[j] # n
    ELSE 0

\* What is left of another requester's chain when node n exits: the caller of
\* n's first handler sees its connection closed without a payload.
CutAt(c, n) ==
    IF c = Idle \/ IndexIn(c.path, n) = 0 THEN c
    ELSE [c EXCEPT !.path = SubSeq(c.path, 1, IndexIn(c.path, n) - 1),
                   !.phase = "resp", !.raw = NoPayload]

\* What is left of the exiting node's own request: an update_predecessor that
\* was already sent is still handled by its receiver.
Orphan(c) ==
    IF c # Idle /\ c.command = "update_predecessor" /\ c.phase = "req" THEN c ELSE Idle

\* signal_handler: Ctrl+C ends the process at once (os._exit); every attribute
\* of the node object is lost and its sockets are closed.
Kill(n) ==
    /\ pc[n] # "off"
    /\ kills < MaxKills
    /\ kills' = kills + 1
    /\ pc' = [pc EXCEPT ![n] = "off"]
    /\ bootstrap' = [bootstrap EXCEPT ![n] = None]
    /\ successor' = [successor EXCEPT ![n] = NoSuccessor]
    /\ predecessor' = [predecessor EXCEPT ![n] = None]
    /\ successor_response' = [successor_response EXCEPT ![n] = NoResponse]
    /\ update_response' = [update_response EXCEPT ![n] = NoResponse]
    /\ data_store' = [data_store EXCEPT ![n] = EmptyStore]
    /\ chain' = [r \in Requesters |->
                    IF r = n THEN Orphan(chain[r]) ELSE CutAt(chain[r], n)]
    /\ worker' = [w \in Workers |->
                    IF worker[w] # IdleWorker /\ worker[w].node = n
                    THEN IdleWorker ELSE worker[w]]
    /\ last_write' = [last_write EXCEPT ![n] = [k \in Keys |-> NoWrite]]

NextRestart ==
    \/ Next
    \/ \E n \in Nodes : Kill(n)

\* As Spec, and a process may be interrupted and started again on its address.
SpecRestart == Init /\ [][NextRestart]_vars

\* Nodes a and b form a two-node ring: each is the other's successor.
TwoNodeRing(a, b) ==
    /\ a # b
    /\ Listening(a) /\ Listening(b)
    /\ successor[a] = Desc(b)
    /\ successor[b] = Desc(a)

\* C6, as stated: on a two-node ring with ids A < B, a find_successor request
\* issued at A for a target <= A is forwarded to B and resolved there: B does
\* not forward it on, so the lookup does not go round the ring.
C6_WraparoundResolvedAtB ==
    \A a, b \in Nodes :
        ( /\ TwoNodeRing(a, b)
          /\ Id(a) < Id(b)
          /\ chain[Client].command = "find_successor"
          /\ chain[Client].request.node_id <= Id(a)
          /\ chain[Client].path # <<>>
          /\ chain[Client].path[1] = a )
            => Len(chain[Client].path) <= 2

\* ------------------------------------------------------------------ store
Inserted(key, value) == [status |-> "success", message |-> <<"Inserted", key, value>>]
Found(value) == [status |-> "success", value |-> value]
Deleted(key) == [status |-> "success", message |-> <<"Deleted", key>>]
KeyNotFound == ErrorResponse("Key not found")

\* hashed_key in self.data_store
Contains(store, hashed_key) == hashed_key \in DOMAIN store

\* Mutant of StoreInsert: an entry that exists is kept (setdefault).
StoreInsertKeepsExisting(store, hashed_key, value) ==
    [h \in DOMAIN store \cup {hashed_key} |->
        IF h \in DOMAIN store THEN store[h] ELSE value]

\* self.data_store[hashed_key] = value
StoreInsert(store, hashed_key, value) ==
    [h \in DOMAIN store \cup {hashed_key} |-> IF h = hashed_key THEN value ELSE store[h]]

\* Mutant of StoreRemove: the entry is left in the dictionary.
StoreRemoveNothing(store, hashed_key) == store

\* del self.data_store[hashed_key]
StoreRemove(store, hashed_key) ==
    [h \in DOMAIN store \ {hashed_key} |-> store[h]]

\* A handler thread is between accepting its request and ending it.
Running(w) == worker[w] # IdleWorker /\ worker[w].pc # "done"

\* Another handler thread is working on the same key of the same node.
Overlaps(w, n, key) ==
    \E v \in Workers \ {w} :
        Running(v) /\ worker[v].node = n /\ worker[v].key = key

\* The handler ends: the response is sent (or the connection just closed).
Finish(w, response) ==
    worker' = [worker EXCEPT ![w] = [@ EXCEPT !.pc = "done", !.response = response]]

\* The insert or delete of handler w has taken effect.
Wrote(w) ==
    last_write' = [last_write EXCEPT ![worker[w].node][worker[w].key] =
                      [command |-> worker[w].command, value |-> worker[w].value]]

\* start_server accepts a connection and starts a thread on handle_request,
\* which decodes a store request with a string key.
Accept(w, n, command, key, value) ==
    /\ worker[w] = IdleWorker
    /\ Listening(n)
    /\ worker' = [v \in Workers |->
          IF v = w
          THEN [command |-> command, node |-> n, key |-> key, value |-> value,
                pc |-> "start", response |-> NoPayload,
                before |-> IF Overlaps(w, n, key) THEN Overlapped ELSE last_write[n][key]]
          ELSE IF Running(v) /\ worker[v].node = n /\ worker[v].key = key
          THEN [worker[v] EXCEPT !.before = Overlapped]
          ELSE worker[v]]
    /\ UNCHANGED <<ringVars, data_store, last_write, kills>>

\* insert: one dictionary store, then the success message.
Insert(w) ==
    /\ Running(w)
    /\ worker[w].command = "insert"
    /\ LET r == worker[w] IN
       /\ data_store' = [data_store EXCEPT ![r.node] = StoreInsert(@, HashKey(r.key), r.value)]
       /\ Finish(w, Inserted(r.key, r.value))
       /\ Wrote(w)
    /\ UNCHANGED <<ringVars, kills>>

\* query and delete, first half: the membership test. An absent key is
\* answered with the error at once.
CheckKey(w) ==
    /\ Running(w)
    /\ worker[w].command \in {"query", "delete"}
    /\ worker[w].pc = "start"
    /\ LET r == worker[w] IN
       IF Contains(data_store[r.node], HashKey(r.key))
       THEN worker' = [worker EXCEPT ![w] = [@ EXCEPT !.pc = "present"]]
       ELSE Finish(w, KeyNotFound)
    /\ UNCHANGED <<ringVars, data_store, last_write, kills>>

\* query, second half: the read of self.data_store[hashed_key]. A KeyError
\* is caught by handle_request, which closes the connection without sending.
QueryRead(w) ==
    /\ Running(w)
    /\ worker[w].command = "query"
    /\ worker[w].pc = "present"
    /\ LET r == worker[w]
           store == data_store[r.node]
       IN  IF HashKey(r.key) \in DOMAIN store
           THEN Finish(w, Found(store[HashKey(r.key)]))
           ELSE Finish(w, NoPayload)
    /\ UNCHANGED <<ringVars, data_store, last_write, kills>>

\* delete, second half: del self.data_store[hashed_key], KeyError as above.
DeleteRemove(w) ==
    /\ Running(w)
    /\ worker[w].command = "delete"
    /\ worker[w].pc = "present"
    /\ LET r == worker[w]
           store == data_store[r.node]
       IN  IF HashKey(r.key) \in DOMAIN store
           THEN /\ data_store' = [data_store EXCEPT ![r.node] = StoreRemove(@, HashKey(r.key))]
                /\ Finish(w, Deleted(r.key))
                /\ Wrote(w)
           ELSE /\ Finish(w, NoPayload)
                /\ UNCHANGED <<data_store, last_write>>
    /\ UNCHANGED <<ringVars, kills>>

\* handle_request, finally: conn.close(); the thread ends.
Close(w) ==
    /\ worker[w] # IdleWorker
    /\ worker[w].pc = "done"
    /\ worker' = [worker EXCEPT ![w] = IdleWorker]
    /\ UNCHANGED <<ringVars, data_store, last_write, kills>>

\* One bootstrap node is up and serves store requests.
InitStore ==
    /\ pc = [n \in Nodes |-> IF n = 1 THEN "serving" ELSE "off"]
    /\ bootstrap = [n \in Nodes |-> None]
    /\ successor = [n \in Nodes |-> IF n = 1 THEN Desc(n) ELSE NoSuccessor]
    /\ predecessor = [n \in Nodes |-> None]
    /\ successor_response = [n \in Nodes |-> NoResponse]
    /\ update_response = [n \in Nodes |-> NoResponse]
    /\ chain = [r \in Requesters |-> Idle]
    /\ data_store = [n \in Nodes |-> EmptyStore]
    /\ worker = [w \in Workers |-> IdleWorker]
    /\ last_write = [n \in Nodes |-> [k \in Keys |-> NoWrite]]
    /\ kills = 0

NextStore ==
    \/ \E w \in Workers, n \in Nodes, key \in Keys, value \in Values :
          Accept(w, n, "insert", key, value)
    \/ \E w \in Workers, n \in Nodes, key \in Keys :
          Accept(w, n, "query", key, NoValue)
    \/ \E w \in Workers, n \in Nodes, key \in Keys :
          Accept(w, n, "delete", key, NoValue)
    \/ \E w \in Workers : Insert(w)
    \/ \E w \in Workers : CheckKey(w)
    \/ \E w \in Workers : QueryRead(w)
    \/ \E w \in Workers : DeleteRemove(w)
    \/ \E w \in Workers : Close(w)

\* The store of one running node under concurrent store requests.
SpecStore == InitStore /\ [][NextStore]_vars

\* ----------------------------------------------------- store: properties
\* Handler w has ended its request.
Done(w) == worker[w] # IdleWorker /\ worker[w].pc = "done"

\* C8, as stated: every query or delete request with a string key gets one
\* response, a success payload or the error "Key not found", whatever other
\* store requests on the same key are handled at the same time; the
\* connection is never closed without a response.
C8_StoreAlwaysResponds ==
    \A w \in Workers :
        (Done(w) /\ worker[w].command \in {"query", "delete"})
            => /\ worker[w].response # NoPayload
               /\ \/ worker[w].response.status = "success"
                  \/ worker[w].response = KeyNotFound

\* Insert step of handler w.
InsertStep(w) ==
    /\ Running(w)
    /\ worker[w].command = "insert"
    /\ worker'[w] # worker[w]

\* The entry under hashed key h of node n is the same before and after.
SameEntry(n, h) ==
    /\ (h \in DOMAIN data_store'[n]) <=> (h \in DOMAIN data_store[n])
    /\ h \in DOMAIN data_store[n] => data_store'[n][h] = data_store[n][h]

\* C9: insert(k, v) is always answered success; a query(k) that follows the
\* insert with no other request on k in between is answered success with v,
\* also when v replaced an earlier value; and an insert changes no entry
\* under another key.
C9_InsertQueryRoundTrip ==
    /\ [](\A w \in Workers :
            Done(w) =>
              /\ worker[w].command = "insert"
                    => worker[w].response = Inserted(worker[w].key, worker[w].value)
              /\ (worker[w].command = "query" /\ worker[w].before.command = "insert")
                    => worker[w].response = Found(worker[w].before.value))
    /\ [][\A w \in Workers :
            InsertStep(w) =>
              /\ \A k \in Keys \ {worker[w].key} : SameEntry(worker[w].node, HashKey(k))
              /\ \A n \in Nodes \ {worker[w].node} : data_store'[n] = data_store[n]]_vars

\* C9 witness: an insert that replaced an earlier value of the key has ended,
\* and the query that followed it was answered with the new value, while the
\* other key still holds its own entry.
C9_Witness ==
    \E w, v \in Workers :
        /\ Done(w) /\ Done(v)
        /\ worker[w].command = "insert" /\ worker[w].key = "k1" /\ worker[w].value = "v2"
        /\ worker[w].before = [command |-> "insert", value |-> "v1"]
        /\ worker[v].command = "query" /\ worker[v].key = "k1" /\ worker[v].node = worker[w].node
        /\ worker[v].before = [command |-> "insert", value |-> "v2"]
        /\ worker[v].response = Found("v2")
        /\ HashKey("k2") \in DOMAIN data_store[worker[w].node]
        /\ data_store[worker[w].node][HashKey("k2")] = "v1"

\* The step in which handler w ends a delete with "Key not found".
DeleteMissStep(w) ==
    /\ Running(w)
    /\ worker[w].command = "delete"
    /\ worker'[w] # IdleWorker
    /\ worker'[w].pc = "done"
    /\ worker'[w].response = KeyNotFound

\* C10: with no other request on k in between, delete(k) of a present key is
\* answered success and a following query(k) is answered "Key not found";
\* delete(k) of an absent key (never inserted, or deleted before) is answered
\* "Key not found" and leaves the store as it was.
C10_Delete ==
    /\ [](\A w \in Workers :
            Done(w) =>
              /\ (worker[w].command = "delete" /\ worker[w].before.command = "insert")
                    => worker[w].response = Deleted(worker[w].key)
              /\ (worker[w].command = "query" /\ worker[w].before.command = "delete")
                    => worker[w].response = KeyNotFound
              /\ (worker[w].command = "delete" /\ worker[w].before.command \in {"none", "delete"})
                    => worker[w].response = KeyNotFound)
    /\ [][\A w \in Workers : DeleteMissStep(w) => data_store' = data_store]_vars

\* C10 witness: a delete of a present key was answered success, and the
\* delete of the same key that followed it was answered "Key not found".
C10_Witness ==
    \E w, v \in Workers :
        /\ Done(w) /\ Done(v)
        /\ worker[w].command = "delete" /\ worker[v].command = "delete"
        /\ worker[w].key = worker[v].key /\ worker[w].node = worker[v].node
        /\ worker[w].before.command = "insert"
        /\ worker[w].response = Deleted(worker[w].key)
        /\ worker[v].before.command = "delete"
        /\ worker[v].response = KeyNotFound

\* ---------------------------------------------------- lookups: termination
\* The node processes that exist.
RunningNodes == {n \in Nodes : pc[n] # "off"}

\* C13: while nodes are only started and joined (no process exits), a
\* find_successor request has been forwarded at most as many times as there
\* are nodes, and it never comes to rest before its requester has the answer:
\* the handler holding it can run, an answer on its way back can be relayed,
\* and the requester can read the answer that reached it.
C13_LookupHopBound ==
    \A r \in Requesters :
        chain[r].command = "find_successor" =>
            /\ chain[r].fwd <= Cardinality(RunningNodes)
            /\ chain[r].phase = "req" => ENABLED HandleFindSuccessor(r)
            /\ (chain[r].phase = "resp" /\ chain[r].path # <<>>) => ENABLED Relay(r)
            /\ (chain[r].phase = "resp" /\ chain[r].path = <<>>) =>
                  IF r = Client THEN ENABLED ClientRecv
                  ELSE ENABLED JoinRecvSuccessor(r)

\* C13 witness: the client's lookup went through one forward and came back
\* with a success answer.
C13_Witness ==
    /\ chain[Client].command = "find_successor"
    /\ chain[Client].phase = "resp"
    /\ chain[Client].path = <<>>
    /\ chain[Client].fwd = 1
    /\ chain[Client].raw # NoPayload
    /\ chain[Client].raw.status = "success"

\* ------------------------------------------------------- join: the sequence
\* The steps __init__ and join() can take from one position to the next.
JoinSteps ==
    { <<"off", "requesting">>, <<"off", "serving">>,
      <<"requesting", "announcing">>, <<"requesting", "serving">>,
      <<"announcing", "updating">>, <<"announcing", "serving">>,
      <<"updating", "serving">> }

\* Node n puts a request on the wire in this step.
Sends(n) == chain[n] = Idle /\ chain'[n] # Idle

\* C15: a node sends a request only as a step of its join: find_successor,
\* carrying its own id, to its bootstrap address as the first thing it does,
\* and update_predecessor, carrying its own id, ip and port, to the address of
\* the successor a success reply named, once. Its position only moves forward,
\* so neither request is sent twice, and after a failed step the node sends
\* nothing more and goes on to start its listener.
C15_JoinSequence ==
    [][\A n \in Nodes :
          /\ Sends(n) =>
                \/ /\ pc[n] = "off"
                   /\ bootstrap'[n] # None
                   /\ chain'[n].request = [command |-> "find_successor", node_id |-> Id(n)]
                   /\ chain'[n].path = <<NodeAt(bootstrap'[n].ip, bootstrap'[n].port)>>
                \/ /\ pc[n] = "announcing"
                   /\ successor_response[n].status = "success"
                   /\ chain'[n].request = [command |-> "update_predecessor", node_id |-> Id(n),
                                           ip |-> IpOf(n), port |-> PortOf(n)]
                   /\ chain'[n].path = <<NodeOf(successor_response[n].successor)>>
          /\ pc'[n] # pc[n] => <<pc[n], pc'[n]>> \in JoinSteps
          /\ ( /\ pc[n] \in {"off", "requesting"}
               /\ pc'[n] # pc[n]
               /\ successor_response'[n].status = "error" )
                => pc'[n] = "serving" /\ chain'[n] = Idle]_vars

\* C15 witness: one node has its update_predecessor request out after a
\* success reply, and another node serves after a failed join with no request
\* out.
C15_Witness ==
    \E n \in Nodes, m \in Nodes :
        /\ pc[n] = "updating"
        /\ chain[n].command = "update_predecessor"
        /\ successor_response[n].status = "success"
        /\ pc[m] = "serving"
        /\ successor_response[m].status = "error"
        /\ chain[m] = Idle

\* ------------------------------------------------- join: listener and join
\* join() of node n is in progress.
Joining(n) == pc[n] \in {"requesting", "announcing", "updating"}

\* C16, as stated: the listener of a node started with a bootstrap address is
\* started immediately, so the node accepts inbound requests while its join
\* is still in progress.
C16_ListensWhileJoining ==
    \A n \in Nodes : Joining(n) => Listening(n)

\* C16, amended: the listener is started only when join() has returned. No
\* handler ever runs at a node whose join is in progress, and a node that
\* tries to join through such a node finds the connection refused.
C16_NoRequestDuringJoin ==
    /\ [](\A r \in Requesters :
            chain[r] # Idle =>
                \A i \in 1..Len(chain[r].path) : ~Joining(chain[r].path[i]))
    /\ [][\A n \in Nodes, b \in Nodes :
            ( /\ pc[n] = "off"
              /\ pc'[n] # "off"
              /\ bootstrap'[n] = Address(b)
              /\ Joining(b) )
                => /\ successor_response'[n] = ConnectRefused
                   /\ chain'[n] = Idle]_vars

\* C16 witness: a node was started with the address of a node whose join was
\* in progress, and its find_successor request was refused.
C16_Witness ==
    \E n \in Nodes, b \in Nodes :
        /\ Joining(b)
        /\ bootstrap[n] = Address(b)
        /\ pc[n] = "serving"
        /\ successor_response[n] = ConnectRefused

\* ------------------------------------------------------------ ring: shape
\* C19: while nodes are only started and joined, the ring is a star. The
\* successor a node holds is the descriptor of a node that is its own
\* successor and was started without a bootstrap address, never of a joined
\* node, and every success answer to find_successor names such a node.
C19_StarTopology ==
    /\ \A n \in Nodes :
          successor[n] # NoSuccessor =>
              \E s \in Nodes :
                  /\ successor[n] = Desc(s)
                  /\ successor[s] = Desc(s)
                  /\ bootstrap[s] = None
    /\ \A r \in Requesters :
          ( /\ chain[r].command = "find_successor"
            /\ chain[r].phase = "resp"
            /\ chain[r].raw # NoPayload
            /\ chain[r].raw.status = "success" )
              => \E s \in Nodes :
                    /\ chain[r].raw.successor = Desc(s)
                    /\ successor[s] = Desc(s)
                    /\ bootstrap[s] = None

\* C19 witness: a node joined through a joined node, and both hold the same
\* bootstrap node as successor.
C19_Witness ==
    \E n \in Nodes, m \in Nodes :
        /\ n # m
        /\ JoinCompleted(n) /\ JoinCompleted(m)
        /\ bootstrap[m] = Address(n)
        /\ successor[m] = successor[n]
        /\ successor[NodeOf(successor[n])] = successor[n]

\* ------------------------------------------------------ one process exits
\* signal_handler, for the first process that is interrupted.
KillFirst(n) == kills = 0 /\ Kill(n)

NextCrash ==
    \/ \E n \in Nodes : StartBootstrap(n)
    \/ \E n \in Nodes, b \in Nodes : StartJoin(n, b)
    \/ \E n \in Nodes : JoinRecvSuccessor(n)
    \/ \E n \in Nodes : JoinSendUpdate(n)
    \/ \E n \in Nodes : JoinRecvUpdate(n)
    \/ \E r \in Nodes : HandleFindSuccessor(r)
    \/ \E r \in Nodes : Relay(r)
    \/ \E r \in Nodes : HandleUpdatePredecessor(r)
    \/ \E n \in Nodes : KillFirst(n)

\* Nodes are started and join through one another, and one process may be
\* interrupted (and started again) while others are joining through it.
SpecCrash == Init /\ [][NextCrash]_vars

\* Node n was started with a bootstrap address and its join has returned.
JoinReturned(n) == pc[n] = "serving" /\ bootstrap[n] # None

\* C14, as stated: a node whose join failed at either step, the find_successor
\* request or the update_predecessor request, runs with no successor.
C14_FailedJoinHasNoSuccessor ==
    \A n \in Nodes :
        ( /\ JoinReturned(n)
          /\ \/ successor_response[n].status = "error"
             \/ update_response[n].status = "error" )
            => successor[n] = NoSuccessor

\* C14, amended: a node whose find_successor request failed runs with no
\* successor and has sent no update_predecessor request; a node whose
\* update_predecessor request failed runs with the successor its find_successor
\* reply named.
C14_JoinFailure ==
    \A n \in Nodes :
        JoinReturned(n) =>
            /\ successor_response[n].status \in {"success", "error"}
            /\ successor_response[n].status = "error"
                  => /\ successor[n] = NoSuccessor
                     /\ update_response[n] = NoResponse
            /\ (successor_response[n].status = "success"
                    /\ update_response[n].status = "error")
                  => successor[n] = successor_response[n].successor

\* C14 witness: one node runs after a failed update_predecessor request,
\* holding the successor it was told, and another runs after a failed
\* find_successor request that a peer answered by closing the connection.
C14_Witness ==
    \E n \in Nodes, m \in Nodes :
        /\ JoinReturned(n)
        /\ successor_response[n].status = "success"
        /\ update_response[n].status = "error"
        /\ successor[n] # NoSuccessor
        /\ JoinReturned(m)
        /\ successor_response[m] = ReceiveResponse(NoPayload)
        /\ successor[m] = NoSuccessor

\* The handler holding requester r's answer on its way back runs in this step.
RelayStep(r) ==
    /\ chain[r].command = "find_successor"
    /\ chain[r].phase = "resp"
    /\ chain[r].path # <<>>
    /\ chain'[r] # chain[r]
    /\ pc' = pc

\* C17: a node whose successor is another node and whose interval does not
\* hold the target passes the request on, once and with the same target, to
\* the address of its current successor, and hands the answer it gets to its
\* own caller as it is. When the successor cannot be reached, or closes the
\* connection without an answer, the caller gets an error response; the
\* request is not sent again.
C17_ForwardPassThrough ==
    [][\A r \in Requesters :
          /\ \A n \in Nodes :
                ( /\ LookupHandled(r, n)
                  /\ successor[n] # NoSuccessor
                  /\ successor[n].node_id # Id(n)
                  /\ ~ ( /\ Id(n) < chain[r].request.node_id
                         /\ chain[r].request.node_id <= successor[n].node_id ) )
                    => /\ chain'[r].fwd = chain[r].fwd + 1
                       /\ IF pc[NodeOf(successor[n])] = "serving"
                          THEN /\ chain'[r].phase = "req"
                               /\ chain'[r].path = Append(chain[r].path, NodeOf(successor[n]))
                               /\ chain'[r].request =
                                     [command |-> "find_successor",
                                      node_id |-> chain[r].request.node_id]
                          ELSE /\ chain'[r].phase = "resp"
                               /\ chain'[r].path = Front(chain[r].path)
                               /\ chain'[r].raw # NoPayload
                               /\ chain'[r].raw.status = "error"
          /\ RelayStep(r)
                => /\ chain'[r].phase = "resp"
                   /\ chain'[r].path = Front(chain[r].path)
                   /\ chain'[r].fwd = chain[r].fwd
                   /\ chain'[r].request = chain[r].request
                   /\ IF chain[r].raw = NoPayload
                      THEN chain'[r].raw # NoPayload /\ chain'[r].raw.status = "error"
                      ELSE chain'[r].raw = chain[r].raw]_vars

\* C17 witness: a joining node's lookup was forwarded, the successor closed
\* the connection without an answer, and the joining node got an error
\* response after that one forward.
C17_Witness ==
    \E n \in Nodes :
        /\ chain[n].command = "find_successor"
        /\ chain[n].phase = "resp"
        /\ chain[n].path = <<>>
        /\ chain[n].fwd = 1
        /\ chain[n].raw = ReceiveResponse(NoPayload)

\* --------------------------------------------------------------- dispatch
\* The commands process_request knows.
KnownCommands == {"insert", "query", "delete", "find_successor", "update_predecessor"}

\* Commands process_request does not know. "None" is what request.get("command")
\* gives, and what the message shows, for a request without a command field.
UnknownCommands == {"shutdown", "None"}

\* Bytes on a connection that json.loads rejects.
Undecodable == [command |-> "undecodable"]

\* Mutant of InvalidCommand: the message does not name the command.
InvalidCommandUnnamed(command) == ErrorResponse(<<"Invalid command received: ">>)

\* process_request, last line: the answer to a command it does not know.
InvalidCommand(command) == ErrorResponse(<<"Invalid command received: ", command>>)

\* The external client has no request out, of any kind.
ClientQuiet ==
    /\ chain[Client] = Idle
    /\ \A w \in Workers : worker[w] = IdleWorker

\* An external client sends update_predecessor to node n, claiming to be node m
\* (which need not be running).
ClientUpdate(n, m) ==
    /\ chain[Client] = Idle
    /\ Listening(n)
    /\ chain' = [chain EXCEPT ![Client] = NewChain(UpdatePredecessorRequest(m), n)]
    /\ UNCHANGED <<pc, bootstrap, successor, predecessor, successor_response,
                   update_response, data_store, worker, last_write, kills>>

\* An external client sends node n a request whose command is unknown, or
\* that has no command field.
ClientInvalid(n, command) ==
    /\ chain[Client] = Idle
    /\ Listening(n)
    /\ chain' = [chain EXCEPT ![Client] = NewChain([command |-> command], n)]
    /\ UNCHANGED <<pc, bootstrap, successor, predecessor, successor_response,
                   update_response, data_store, worker, last_write, kills>>

\* An external client sends node n bytes that are not JSON.
ClientGarbage(n) ==
    /\ chain[Client] = Idle
    /\ Listening(n)
    /\ chain' = [chain EXCEPT ![Client] = NewChain(Undecodable, n)]
    /\ UNCHANGED <<pc, bootstrap, successor, predecessor, successor_response,
                   update_response, data_store, worker, last_write, kills>>

\* handle_request -> process_request with a command that matches no branch:
\* the error response of the last line is sent.
HandleInvalid(r) ==
    /\ chain[r].command \in UnknownCommands
    /\ chain[r].phase = "req"
    /\ chain' = [chain EXCEPT ![r] = Answer(chain[r], InvalidCommand(chain[r].command))]
    /\ UNCHANGED <<pc, bootstrap, successor, predecessor, successor_response,
                   update_response, data_store, worker, last_write, kills>>

\* Mutant of HandleUndecodable: the decode error is answered with an error
\* response.
HandleUndecodableAnswers(r) ==
    /\ chain[r].command = Undecodable.command
    /\ chain[r].phase = "req"
    /\ chain' = [chain EXCEPT ![r] = Answer(chain[r], ErrorResponse("bad request"))]
    /\ UNCHANGED <<pc, bootstrap, successor, predecessor, successor_response,
                   update_response, data_store, worker, last_write, kills>>

\* handle_request with data json.loads rejects: the except clause prints the
\* error and the finally clause closes the connection; nothing is sent.
HandleUndecodable(r) ==
    /\ chain[r].command = Undecodable.command
    /\ chain[r].phase = "req"
    /\ chain' = [chain EXCEPT ![r] = Answer(chain[r], NoPayload)]
    /\ UNCHANGED <<pc, bootstrap, successor, predecessor, successor_response,
                   update_response, data_store, worker, last_write, kills>>

NextDispatch ==
    \/ StartBootstrap(1)
    \/ \E b \in Nodes : StartJoin(2, b)
    \/ \E n \in Nodes : JoinRecvSuccessor(n)
    \/ \E n \in Nodes : JoinSendUpdate(n)
    \/ \E n \in Nodes : JoinRecvUpdate(n)
    \/ \E r \in Requesters : HandleFindSuccessor(r)
    \/ \E r \in Requesters : Relay(r)
    \/ \E r \in Requesters : HandleUpdatePredecessor(r)
    \/ \E r \in Requesters : HandleInvalid(r)
    \/ \E r \in Requesters : HandleUndecodable(r)
    \/ \E n \in Nodes, t \in Targets : ClientQuiet /\ ClientLookup(n, t)
    \/ \E n \in Nodes, m \in Nodes : ClientQuiet /\ ClientUpdate(n, m)
    \/ \E n \in Nodes, command \in UnknownCommands : ClientQuiet /\ ClientInvalid(n, command)
    \/ \E n \in Nodes : ClientQuiet /\ ClientGarbage(n)
    \/ ClientRecv
    \/ \E n \in Nodes, value \in Values : ClientQuiet /\ Accept(1, n, "insert", "k1", value)
    \/ \E n \in Nodes : ClientQuiet /\ Accept(1, n, "query", "k1", NoValue)
    \/ \E n \in Nodes : ClientQuiet /\ Accept(1, n, "delete", "k1", NoValue)
    \/ \E w \in Workers : Insert(w)
    \/ \E w \in Workers : CheckKey(w)
    \/ \E w \in Workers : QueryRead(w)
    \/ \E w \in Workers : DeleteRemove(w)
    \/ \E w \in Workers : Close(w)

\* Node 1 is started without a bootstrap address and node 2 with one, which
\* may be any address, while one external client sends requests of every kind,
\* one at a time, to the nodes that listen.
SpecDispatch == Init /\ [][NextDispatch]_vars

\* --------------------------------------------------- dispatch: properties
\* The handler holding requester r's request runs in this step.
RequestHandled(r) ==
    /\ chain[r] # Idle
    /\ chain[r].phase = "req"
    /\ chain'[r] # chain[r]

\* The ring attributes and the store of every node are as before the step.
NodeStateKept ==
    /\ successor' = successor
    /\ predecessor' = predecessor
    /\ data_store' = data_store

C12_MalformedInput ==
    /\ [][\A r \in Requesters :
            /\ (RequestHandled(r) /\ chain[r].command = Undecodable.command)
                  => /\ chain'[r].phase = "resp"
                     /\ chain'[r].path = Front(chain[r].path)
                     /\ chain'[r].raw = NoPayload
            /\ (RequestHandled(r) /\ chain'[r].phase = "resp" /\ chain'[r].raw = NoPayload)
                  => NodeStateKept /\ pc' = pc]_vars
    /\ [][\A n \in Nodes : Listening(n) => Listening(n)']_vars
    /\ [](\A n \in Nodes :
            (Listening(n) /\ ClientQuiet) => ENABLED ClientGarbage(n))

\* C12 witness: the client's undecodable data was dropped by a node that
\* holds a predecessor, and the same node has answered a joining node's
\* request that is still on its way back.
C12_Witness ==
    \E n \in Nodes :
        /\ chain[Client].command = Undecodable.command
        /\ chain[Client].phase = "resp"
        /\ chain[Client].path = <<>>
        /\ chain[Client].raw = NoPayload
        /\ Listening(chain[Client].at)
        /\ chain[n] # Idle
        /\ chain[n].at = chain[Client].at
        /\ chain[n].phase = "resp"
        /\ chain[n].raw # NoPayload

\* Requester r's update_predecessor request is handled in this step, at node h.
UpdateHandledAt(r, h) ==
    /\ RequestHandled(r)
    /\ chain[r].command = "update_predecessor"
    /\ Last(chain[r].path) = h

\* C18: a node is started with no predecessor; each update_predecessor
\* request it handles makes its predecessor the whole descriptor {node_id,
\* ip, port} the request carries, whoever sent it and whatever was there,
\* and is answered success; nothing else changes the predecessor, and a
\* predecessor that is set is never absent again.
C18_PredecessorLastWriter ==
    [][\A h \in Nodes :
          /\ (pc[h] = "off" /\ pc'[h] # "off") => predecessor'[h] = None
          /\ \A r \in Requesters :
                UpdateHandledAt(r, h)
                    => /\ predecessor'[h] = [node_id |-> chain[r].request.node_id,
                                             ip |-> chain[r].request.ip,
                                             port |-> chain[r].request.port]
                       /\ chain'[r].phase = "resp"
                       /\ chain'[r].raw = [status |-> "success",
                                           message |-> "Predecessor updated"]
          /\ (pc[h] # "off" /\ predecessor'[h] # predecessor[h])
                => \E r \in Requesters : UpdateHandledAt(r, h)
          /\ (pc[h] # "off" /\ predecessor[h] # None) => predecessor'[h] # None]_vars

\* C18 witness: a node joined through node h, whose predecessor is now the
\* descriptor of a node that is not running: the joiner's update was applied
\* and a later claim by the client replaced it.
C18_Witness ==
    \E h \in Nodes, n \in Nodes, m \in Nodes :
        /\ JoinCompleted(n)
        /\ successor[n] = Desc(h)
        /\ n # h
        /\ pc[m] = "off"
        /\ predecessor[h] = Desc(m)

\* C20: once a node's construction has finished, its successor stays what it
\* is, whatever requests it or any other node handles: insert, query, delete,
\* find_successor, update_predecessor, unknown commands, and the two requests
\* of another node's join.
C20_SuccessorFrozen ==
    [][\A n \in Nodes :
          (Listening(n) /\ Listening(n)') => successor'[n] = successor[n]]_vars

\* C20 witness: a node started without a bootstrap address has served a
\* join, a client's predecessor claim and an insert, has just answered an
\* unknown command, and is still its own successor.
C20_Witness ==
    \E h \in Nodes :
        /\ Listening(h)
        /\ successor[h] = Desc(h)
        /\ JoinedTo(h)
        /\ predecessor[h] # None
        /\ \A m \in Nodes : JoinCompleted(m) => predecessor[h] # Desc(m)
        /\ data_store[h] # EmptyStore
        /\ chain[Client].command = "shutdown"
        /\ chain[Client].at = h
        /\ chain[Client].phase = "resp"

====
